---- MODULE Spec2Model ----
(***************************************************************************)
(* Model of streamsx/objectstorage/_objectstorage.py: the entry points     *)
(* scan, read, write and write_parquet, the helpers _read_iam_credentials  *)
(* and _check_time_per_object, and the three operator wrappers             *)
(* _ObjectStorageSink, _ObjectStorageScan and _ObjectStorageSource.        *)
(*                                                                         *)
(* Python values are tagged records.  A str is a sequence of one-character *)
(* strings.  A seconds value is an integer number of ticks, Scale ticks to *)
(* the second, so that fractional seconds around the boundary of 1 second  *)
(* are representable; a float is either finite or one of nan, inf, -inf.   *)
(* A dict is a function from keys to values.                               *)
(***************************************************************************)
EXTENDS Integers, Sequences, FiniteSets, TLC

VARIABLES topology, last

vars == <<topology, last>>

---------------------------------------------------------------------------
(* Bounds *)

MaxOps == 1
MaxRidLen == 4
MaxEntryRidLen == 1
MaxSeconds == 2
Scale == 2
MaxSupplied == 2

---------------------------------------------------------------------------
(* Python values *)

None == [t |-> "None"]
Str(s) == [t |-> "str", v |-> s]
Dict(d) == [t |-> "dict", v |-> d]
Integer(n) == [t |-> "int", v |-> n]
Bool(b) == [t |-> "bool", v |-> b]
Float(c, k) == [t |-> "float", cls |-> c, v |-> k]
Timedelta(k) == [t |-> "timedelta", v |-> k]

EmptyDict == <<>>

\* d[k] = v
Put(d, k, v) == [x \in (DOMAIN d) \cup {k} |-> IF x = k THEN v ELSE d[x]]

\* d.get(k)
Get(d, k) == IF k \in DOMAIN d THEN d[k] ELSE None

\* isinstance(x, dict)
IsDict(x) == x.t = "dict"

\* all strings over alphabet A of length at most n
StrsUpTo(A, n) == UNION {[1..k -> A] : k \in 0..n}

---------------------------------------------------------------------------
(* _read_iam_credentials *)

\* index of the first occurrence of c in s, 0 if there is none
RECURSIVE Find(_, _, _)
Find(s, c, i) ==
    IF i > Len(s) THEN 0
    ELSE IF s[i] = c THEN i
    ELSE Find(s, c, i + 1)

\* s.split(c)
RECURSIVE Split(_, _)
Split(s, c) ==
    LET i == Find(s, c, 1)
    IN  IF i = 0 THEN <<s>>
        ELSE <<SubSeq(s, 1, i - 1)>> \o Split(SubSeq(s, i + 1, Len(s)), c)

\* mutant: the first non-empty segment is kept
RECURSIVE ScanSegments_FirstWins(_, _)
ScanSegments_FirstWins(data, service_instance_id) ==
    IF data = <<>> THEN service_instance_id
    ELSE LET temp == Head(data)
         IN  ScanSegments_FirstWins(Tail(data),
                 IF temp # <<>> /\ service_instance_id = <<>>
                 THEN temp ELSE service_instance_id)

\* for temp in data: if temp != '': service_instance_id = temp
RECURSIVE ScanSegments(_, _)
ScanSegments(data, service_instance_id) ==
    IF data = <<>> THEN service_instance_id
    ELSE LET temp == Head(data)
         IN  ScanSegments(Tail(data),
                          IF temp # <<>> THEN temp ELSE service_instance_id)

\* mutant: an identifier without a non-empty segment is refused
read_iam_credentials_RefuseEmpty(credentials) ==
    LET api_key == Get(credentials.v, "apikey")
        resource_instance_id == Get(credentials.v, "resource_instance_id")
    IN  IF resource_instance_id.t # "str"
        THEN [exc |-> "AttributeError"]
        ELSE LET data == Split(resource_instance_id.v, ":")
                 service_instance_id == ScanSegments(data, <<>>)
             IN  IF service_instance_id = <<>>
                 THEN [exc |-> "KeyError"]
                 ELSE [exc |-> "none",
                       iam_api_key |-> api_key,
                       service_instance_id |-> Str(service_instance_id)]

read_iam_credentials(credentials) ==
    LET api_key == Get(credentials.v, "apikey")
        resource_instance_id == Get(credentials.v, "resource_instance_id")
    IN  IF resource_instance_id.t # "str"
        THEN [exc |-> "AttributeError"]
        ELSE LET data == Split(resource_instance_id.v, ":")
                 service_instance_id == ScanSegments(data, <<>>)
             IN  [exc |-> "none",
                  iam_api_key |-> api_key,
                  service_instance_id |-> Str(service_instance_id)]

---------------------------------------------------------------------------
(* _check_time_per_object *)

\* datetime.timedelta.total_seconds()
total_seconds(td) == Float("fin", td.v)

\* isinstance(x, int): bool is a subclass of int
IsInt(x) == x.t \in {"int", "bool"}

\* Python's  result <= 1  for an int, bool or float
LessEqualOne(x) ==
    CASE x.t = "int"   -> x.v <= 1
      [] x.t = "bool"  -> (IF x.v THEN 1 ELSE 0) <= 1
      [] x.t = "float" ->
           CASE x.cls = "fin"  -> x.v <= Scale
             [] x.cls = "nan"  -> FALSE
             [] x.cls = "inf"  -> FALSE
             [] x.cls = "ninf" -> TRUE

check_time_per_object(time_per_object) ==
    LET typed == \/ time_per_object.t = "timedelta"
                 \/ IsInt(time_per_object)
                 \/ time_per_object.t = "float"
        result == IF time_per_object.t = "timedelta"
                  THEN total_seconds(time_per_object)
                  ELSE time_per_object
    IN  IF ~typed THEN [exc |-> "TypeError"]
        ELSE IF LessEqualOne(result) THEN [exc |-> "ValueError"]
        ELSE [exc |-> "none", result |-> result]

\* streamsx.spl.types.float64(value): the value converted with float()
float64(x) ==
    CASE x.t = "int"   -> [t |-> "float64", cls |-> "fin", v |-> x.v * Scale]
      [] x.t = "bool"  -> [t |-> "float64", cls |-> "fin",
                           v |-> (IF x.v THEN Scale ELSE 0)]
      [] x.t = "float" -> [t |-> "float64", cls |-> x.cls, v |-> x.v]

---------------------------------------------------------------------------
(* Operator wrappers *)

\* if k is not None: params['k'] = k
Same(k) == [test |-> k, key |-> k, val |-> k]

\* params['k'] = k
Always(k) == [test |-> "", key |-> k, val |-> k]

\* if a is not None: params['k'] = b
Cross(a, k, b) == [test |-> a, key |-> k, val |-> b]

\* names bound at module level
ModuleGlobals ==
    {"datetime", "streamsx", "CommonSchema", "StreamSchema", "rstring",
     "scan", "read", "_read_iam_credentials", "_check_time_per_object",
     "write", "write_parquet", "_ObjectStorageSink", "_ObjectStorageScan",
     "_ObjectStorageSource"}

\* the chain of assignments to params, in source order; a read of a name that
\* is neither a local nor a global raises NameError
RECURSIVE ApplySteps(_, _, _)
ApplySteps(steps, locals, params) ==
    IF steps = <<>> THEN [exc |-> "none", params |-> params]
    ELSE LET s == Head(steps)
         IN  IF s.test # "" /\ locals[s.test] = None
             THEN ApplySteps(Tail(steps), locals, params)
             ELSE IF s.val \notin (DOMAIN locals) \cup ModuleGlobals
             THEN [exc |-> "NameError", params |-> params]
             ELSE ApplySteps(Tail(steps), locals,
                             Put(params, s.key, locals[s.val]))

\* streamsx.spl.op.Invoke.__init__ / Source.__init__: the invocation is added
\* to the topology and keeps the params
Invoke(topo, kind, params) == Append(topo, [kind |-> kind, params |-> params])

\* _op.params[k] = v
SetParam(topo, op, k, v) == [topo EXCEPT ![op].params = Put(@, k, v)]

\* a wrapper's __init__: build params, then call the base constructor
Construct(topo, kind, steps, locals) ==
    LET r == ApplySteps(steps, locals, EmptyDict)
    IN  IF r.exc # "none"
        THEN [exc |-> r.exc, topology |-> topo, op |-> 0]
        ELSE [exc |-> "none", topology |-> Invoke(topo, kind, r.params),
              op |-> Len(topo) + 1]

SinkKind == "com.ibm.streamsx.objectstorage::ObjectStorageSink"
ScanKind == "com.ibm.streamsx.objectstorage::ObjectStorageScan"
SourceKind == "com.ibm.streamsx.objectstorage::ObjectStorageSource"

SinkSteps ==
    <<Same("vmArg"), Same("appConfigName"), Same("bytesPerObject"),
      Same("closeOnPunct"), Same("dataAttribute"), Same("encoding"),
      Same("endpoint"), Same("headerRow"), Same("objectName"),
      Same("objectNameAttribute"), Same("objectStorageURI"),
      Same("parquetBlockSize"), Same("parquetCompression"),
      Same("parquetDictPageSize"), Same("parquetEnableDict"),
      Same("parquetEnableSchemaValidation"), Same("parquetPageSize"),
      Same("parquetWriterVersion"), Same("partitionValueAttributes"),
      Same("skipPartitionAttributes"), Same("storageFormat"),
      Same("timeFormat"), Same("timePerObject"), Same("tuplesPerObject"),
      Same("IAMApiKey"), Same("IAMServiceInstanceId")>>

ScanSteps ==
    <<Always("directory"), Same("vmArg"), Same("appConfigName"),
      Same("endpoint"), Same("objectStorageURI"), Same("initDelay"),
      Same("sleepTime"), Same("pattern"), Same("strictMode"),
      Same("IAMApiKey"), Same("IAMServiceInstanceId")>>

SourceSteps ==
    <<Same("vmArg"), Same("appConfigName"), Same("endpoint"),
      Same("objectStorageURI"), Cross("blockSize", "blockSize", "initDelay"),
      Cross("encoding", "encoding", "sleepTime"), Same("initDelay"),
      Same("IAMApiKey"), Same("IAMServiceInstanceId")>>

\* the arguments of a wrapper that are tested against None
Optional(steps) == {steps[i].test : i \in 1..Len(steps)} \ {""}

\* the local names of each __init__: its arguments and its local variables
SinkLocals ==
    Optional(SinkSteps) \cup
    {"self", "stream", "schema", "name", "topology", "kind", "inputs",
     "schemas", "params"}
ScanLocals ==
    Optional(ScanSteps) \cup
    {"self", "topology", "schema", "directory", "name", "kind", "inputs",
     "schemas", "params"}
SourceLocals ==
    Optional(SourceSteps) \cup
    {"self", "stream", "schema", "name", "kind", "topology", "inputs",
     "params"}

\* a call's frame: every name not passed is None, the rest as given
Frame(names, given) ==
    [n \in names |-> IF n \in DOMAIN given THEN given[n] ELSE None]

ObjectStorageSink(topo, given) ==
    Construct(topo, SinkKind, SinkSteps, Frame(SinkLocals, given))

ObjectStorageScan(topo, given) ==
    Construct(topo, ScanKind, ScanSteps, Frame(ScanLocals, given))

ObjectStorageSource(topo, given) ==
    Construct(topo, SourceKind, SourceSteps, Frame(SourceLocals, given))

---------------------------------------------------------------------------
(* Entry points.  Each returns the exception raised ("none" for a normal   *)
(* return), the topology as the call leaves it and the index of the        *)
(* operator it constructed (0 if none).                                    *)

S3A == <<"s", "3", "a", ":", "/", "/">>

\* mutant: the name is not suppressed for a dict
AppConfigName_NotSuppressed(credentials) == credentials

\* appConfigName=credentials; if isinstance(credentials, dict): appConfigName = None
AppConfigName(credentials) == IF IsDict(credentials) THEN None ELSE credentials

\* if isinstance(credentials, dict): read the credentials and set both IAM
\* parameters
SetIam(c, credentials) ==
    IF c.exc # "none" \/ ~IsDict(credentials) THEN c
    ELSE LET iam == read_iam_credentials(credentials)
         IN  IF iam.exc # "none" THEN [c EXCEPT !.exc = iam.exc]
             ELSE [c EXCEPT !.topology =
                     SetParam(SetParam(@, c.op, "IAMApiKey", iam.iam_api_key),
                              c.op, "IAMServiceInstanceId",
                              iam.service_instance_id)]

\* _op.params[k] = v, unless the call has already raised
Assign(c, k, v) ==
    IF c.exc # "none" THEN c
    ELSE [c EXCEPT !.topology = SetParam(@, c.op, k, v)]

\* _op.params['timePerObject'] = float64(_check_time_per_object(time_per_object))
SetTimePerObject(c, time_per_object) ==
    IF c.exc # "none" THEN c
    ELSE LET chk == check_time_per_object(time_per_object)
         IN  IF chk.exc # "none" THEN [c EXCEPT !.exc = chk.exc]
             ELSE Assign(c, "timePerObject", float64(chk.result))

scan(topo, bucket, endpoint, pattern, directory, credentials, vm_arg) ==
    LET appConfigName == AppConfigName(credentials)
        c0 == ObjectStorageScan(topo,
                  [pattern |-> pattern, directory |-> directory,
                   endpoint |-> endpoint, appConfigName |-> appConfigName,
                   vmArg |-> vm_arg])
        c1 == Assign(c0, "objectStorageURI", Str(S3A \o bucket.v))
    IN  SetIam(c1, credentials)

read(topo, bucket, endpoint, credentials, vm_arg) ==
    LET appConfigName == AppConfigName(credentials)
        c0 == ObjectStorageSource(topo,
                  [endpoint |-> endpoint, appConfigName |-> appConfigName,
                   vmArg |-> vm_arg])
        c1 == Assign(c0, "objectStorageURI", Str(S3A \o bucket.v))
    IN  SetIam(c1, credentials)

write(topo, bucket, endpoint, object, time_per_object, header, credentials, vm_arg) ==
    LET appConfigName == AppConfigName(credentials)
        c0 == ObjectStorageSink(topo,
                  [objectName |-> object, endpoint |-> endpoint,
                   appConfigName |-> appConfigName, vmArg |-> vm_arg])
        c1 == Assign(c0, "storageFormat", Str(<<"r", "a", "w">>))
        c2 == Assign(c1, "objectStorageURI", Str(S3A \o bucket.v))
        c3 == SetTimePerObject(c2, time_per_object)
        c4 == IF header # None THEN Assign(c3, "headerRow", header) ELSE c3
    IN  SetIam(c4, credentials)

write_parquet(topo, bucket, endpoint, object, time_per_object, credentials, vm_arg) ==
    LET appConfigName == AppConfigName(credentials)
        c0 == ObjectStorageSink(topo,
                  [objectName |-> object, endpoint |-> endpoint,
                   appConfigName |-> appConfigName, vmArg |-> vm_arg])
        c1 == Assign(c0, "storageFormat", Str(<<"p", "a", "r", "q", "u", "e", "t">>))
        c2 == Assign(c1, "parquetCompression", Str(<<"S", "N", "A", "P", "P", "Y">>))
        c3 == Assign(c2, "parquetEnableDict", Bool(TRUE))
        c4 == Assign(c3, "objectStorageURI", Str(S3A \o bucket.v))
        c5 == SetTimePerObject(c4, time_per_object)
    IN  SetIam(c5, credentials)

---------------------------------------------------------------------------
(* Inputs *)

RidAlphabet == {"a", "b", ":"}

\* a credentials dict with the given apikey and resource_instance_id, a field
\* given as None being absent from the dict
CredentialsDict(k, r) ==
    Dict([x \in (IF k = None THEN {} ELSE {"apikey"}) \cup
                (IF r = None THEN {} ELSE {"resource_instance_id"})
          |-> IF x = "apikey" THEN k ELSE r])

\* the dicts whose resource_instance_id has at most n characters
Dicts(n) ==
    {CredentialsDict(k, r) :
        k \in {None, Str(<<"k">>)},
        r \in {None} \cup {Str(s) : s \in StrsUpTo(RidAlphabet, n)}}

\* None, an application configuration name, or a dict
Credentials(n) == {None, Str(<<>>), Str(<<"a">>)} \cup Dicts(n)

Ticks == (0 - Scale)..(MaxSeconds * Scale)

TimeInputs ==
    {None, Str(<<"a">>), Bool(FALSE), Bool(TRUE)}
    \cup {Integer(n) : n \in (0 - 1)..MaxSeconds}
    \cup {Float("fin", k) : k \in Ticks}
    \cup {Float(c, 0) : c \in {"nan", "inf", "ninf"}}
    \cup {Timedelta(k) : k \in Ticks}

\* the time_per_object values the entry points are called with: one of each
\* type, on both sides of one second
EntryTimes ==
    {Str(<<"a">>), Integer(1), Integer(MaxSeconds),
     Float("fin", MaxSeconds * Scale), Float("nan", 0),
     Timedelta(Scale), Timedelta(MaxSeconds * Scale)}

Bucket == Str(<<"b">>)
Endpoint == Str(<<"e">>)
ObjectName == Str(<<"o">>)
Pattern == Str(<<".", "*">>)
Directory == Str(<<"/">>)
OptStr == {None, Str(<<"x">>)}

\* the values a wrapper is constructed with
ArgVals == {Str(<<"a">>), Str(<<"b">>)}

\* at most MaxSupplied of the optional arguments, each with a value
RECURSIVE SubsetsUpTo(_, _)
SubsetsUpTo(S, n) ==
    IF n = 0 THEN {{}}
    ELSE LET P == SubsetsUpTo(S, n - 1)
         IN  P \cup {T \cup {x} : T \in P, x \in S}

Supplied(steps) ==
    UNION {[S -> ArgVals] : S \in SubsetsUpTo(Optional(steps), MaxSupplied)}

---------------------------------------------------------------------------
(* State machine *)

Init ==
    /\ topology = <<>>
    /\ last = [fn |-> "init"]

EntryCall(fn, c, credentials, time_per_object, header, vm_arg) ==
    /\ topology' = c.topology
    /\ last' = [fn |-> fn, credentials |-> credentials,
                time_per_object |-> time_per_object, header |-> header,
                vm_arg |-> vm_arg, exc |-> c.exc, op |-> c.op]

CallScan ==
    /\ Len(topology) < MaxOps
    /\ \E credentials \in Credentials(MaxEntryRidLen), vm_arg \in OptStr :
         EntryCall("scan",
                   scan(topology, Bucket, Endpoint, Pattern, Directory,
                        credentials, vm_arg),
                   credentials, None, None, vm_arg)

CallRead ==
    /\ Len(topology) < MaxOps
    /\ \E credentials \in Credentials(MaxEntryRidLen), vm_arg \in OptStr :
         EntryCall("read",
                   read(topology, Bucket, Endpoint, credentials, vm_arg),
                   credentials, None, None, vm_arg)

CallWrite ==
    /\ Len(topology) < MaxOps
    /\ \E credentials \in Credentials(MaxEntryRidLen),
          time_per_object \in EntryTimes, header \in OptStr :
         EntryCall("write",
                   write(topology, Bucket, Endpoint, ObjectName,
                         time_per_object, header, credentials, None),
                   credentials, time_per_object, header, None)

CallWriteParquet ==
    /\ Len(topology) < MaxOps
    /\ \E credentials \in Credentials(MaxEntryRidLen),
          time_per_object \in EntryTimes :
         EntryCall("write_parquet",
                   write_parquet(topology, Bucket, Endpoint, ObjectName,
                                 time_per_object, credentials, None),
                   credentials, time_per_object, None, None)

Next == CallScan \/ CallRead \/ CallWrite \/ CallWriteParquet

Spec == Init /\ [][Next]_vars

\* the helpers called on their own
CallReadIamCredentials ==
    /\ \E credentials \in Dicts(MaxRidLen) :
         last' = [fn |-> "_read_iam_credentials", credentials |-> credentials,
                  ret |-> read_iam_credentials(credentials)]
    /\ UNCHANGED topology

CallCheckTimePerObject ==
    /\ \E time_per_object \in TimeInputs :
         last' = [fn |-> "_check_time_per_object",
                  time_per_object |-> time_per_object,
                  ret |-> check_time_per_object(time_per_object)]
    /\ UNCHANGED topology

NextFn == CallReadIamCredentials \/ CallCheckTimePerObject

SpecFn == Init /\ [][NextFn]_vars

\* the wrappers constructed on their own
WrapperCall(fn, c, given) ==
    /\ topology' = c.topology
    /\ last' = [fn |-> fn, given |-> given, exc |-> c.exc, op |-> c.op]

NewObjectStorageSink ==
    /\ Len(topology) < MaxOps
    /\ \E given \in Supplied(SinkSteps) :
         WrapperCall("_ObjectStorageSink", ObjectStorageSink(topology, given),
                     given)

NewObjectStorageScan ==
    /\ Len(topology) < MaxOps
    /\ \E given \in Supplied(ScanSteps) :
         LET g == Put(given, "directory", Directory)
         IN  WrapperCall("_ObjectStorageScan", ObjectStorageScan(topology, g), g)

NewObjectStorageSource ==
    /\ Len(topology) < MaxOps
    /\ \E given \in Supplied(SourceSteps) :
         WrapperCall("_ObjectStorageSource",
                     ObjectStorageSource(topology, given), given)

NextWrapper ==
    NewObjectStorageSink \/ NewObjectStorageScan \/ NewObjectStorageSource

SpecWrapper == Init /\ [][NextWrapper]_vars

---------------------------------------------------------------------------
(* Properties *)

EntryFns == {"scan", "read", "write", "write_parquet"}
WrapperFns == {"_ObjectStorageSink", "_ObjectStorageScan", "_ObjectStorageSource"}

\* the last call was an entry point and it returned normally
Returned == last.fn \in EntryFns /\ last.exc = "none"

\* the params of the operator the last call constructed
LastParams == topology[last.op].params

HasReference(p) == "appConfigName" \in DOMAIN p
HasApiKey(p) == "IAMApiKey" \in DOMAIN p
HasInstanceId(p) == "IAMServiceInstanceId" \in DOMAIN p

Cos == Str(<<"c", "o", "s">>)

\* seg is the last non-empty colon-separated segment of s: a non-empty
\* colon-free substring that starts at the beginning or after a colon and is
\* followed by colons only; or the empty string when s has colons only
IsLastNonEmptySegment(s, seg) ==
    IF \A k \in 1..Len(s) : s[k] = ":"
    THEN seg = <<>>
    ELSE /\ seg # <<>>
         /\ \A k \in 1..Len(seg) : seg[k] # ":"
         /\ \E i \in 1..Len(s) :
              LET j == i + Len(seg) - 1
              IN  /\ j <= Len(s)
                  /\ SubSeq(s, i, j) = seg
                  /\ (i = 1 \/ s[i - 1] = ":")
                  /\ \A k \in (j + 1)..Len(s) : s[k] = ":"

\* the credentials of the last call are a dict with a resource_instance_id
HasRid == /\ IsDict(last.credentials)
          /\ "resource_instance_id" \in DOMAIN last.credentials.v

LastRid == last.credentials.v["resource_instance_id"].v

\* C1: every entry point that returns normally leaves exactly one credential
\* form in the params: appConfigName alone, or IAMApiKey and
\* IAMServiceInstanceId together without appConfigName.
C1_ExactlyOneForm ==
    Returned =>
        LET p == LastParams
        IN  \/ HasReference(p) /\ ~HasApiKey(p) /\ ~HasInstanceId(p)
            \/ ~HasReference(p) /\ HasApiKey(p) /\ HasInstanceId(p)

\* C2: with credentials None the params carry appConfigName = "cos" and no
\* IAM parameter.
C2_NoneGivesCos ==
    (Returned /\ last.credentials = None) =>
        LET p == LastParams
        IN  /\ HasReference(p)
            /\ p["appConfigName"] = Cos
            /\ ~HasApiKey(p) /\ ~HasInstanceId(p)

\* C3: for a resource_instance_id with at least one non-empty segment,
\* _read_iam_credentials returns without error and its service instance id
\* is the last non-empty colon-separated segment.
C3_LastNonEmptySegment ==
    (/\ last.fn = "_read_iam_credentials"
     /\ HasRid
     /\ \E k \in 1..Len(LastRid) : LastRid[k] # ":")
    => /\ last.ret.exc = "none"
       /\ last.ret.service_instance_id.t = "str"
       /\ last.ret.service_instance_id.v # <<>>
       /\ IsLastNonEmptySegment(LastRid, last.ret.service_instance_id.v)

\* "a:b:" gives "b": neither the first segment nor the empty trailing one
C3_Witness ==
    /\ last.fn = "_read_iam_credentials"
    /\ HasRid
    /\ LastRid = <<"a", ":", "b", ":">>
    /\ last.ret.exc = "none"
    /\ last.ret.service_instance_id = Str(<<"b">>)

\* the seconds value of an int, float or timedelta is greater than 1
GreaterThanOne(x) ==
    CASE x.t = "int" -> x.v > 1
      [] x.t = "timedelta" -> x.v > Scale
      [] x.t \in {"float", "float64"} ->
           \/ x.cls = "inf"
           \/ x.cls = "fin" /\ x.v > Scale

\* C4: _check_time_per_object accepts an int, float or timedelta exactly
\* when its seconds value is greater than 1, rejects the others with
\* ValueError, and what it returns is greater than 1.
C4_AcceptsIffGreaterThanOne ==
    (/\ last.fn = "_check_time_per_object"
     /\ last.time_per_object.t \in {"int", "float", "timedelta"})
    => /\ last.ret.exc = "none" <=> GreaterThanOne(last.time_per_object)
       /\ last.ret.exc \in {"none", "ValueError"}
       /\ last.ret.exc = "none" => GreaterThanOne(last.ret.result)

\* C5: a time_per_object that is not an integer, a float or a timedelta (a
\* string, None, a boolean) raises TypeError, never ValueError.
C5_OtherTypesRaiseTypeError ==
    (/\ last.fn = "_check_time_per_object"
     /\ last.time_per_object.t \notin {"int", "float", "timedelta"})
    => last.ret.exc = "TypeError"

\* C6: an entry point called with a dict that lacks apikey or
\* resource_instance_id raises; it never returns normally.
C6_MissingFieldRaises ==
    (/\ last.fn \in EntryFns
     /\ IsDict(last.credentials)
     /\ \/ "apikey" \notin DOMAIN last.credentials.v
        \/ "resource_instance_id" \notin DOMAIN last.credentials.v)
    => last.exc # "none"

\* C7: an entry point that raises leaves the topology with exactly the
\* operators it had before the call.
C7_NoPartialSuccess ==
    [][(last'.fn \in EntryFns /\ last'.exc # "none") => topology' = topology]_vars

\* C8: a str credentials value is passed through as appConfigName with no
\* IAM parameter; a dict yields IAMApiKey = its apikey, IAMServiceInstanceId =
\* the extracted segment, and no appConfigName.
C8_PassThrough ==
    Returned =>
        LET p == LastParams
            c == last.credentials
        IN  /\ c.t = "str" =>
                /\ HasReference(p) /\ p["appConfigName"] = c
                /\ ~HasApiKey(p) /\ ~HasInstanceId(p)
            /\ c.t = "dict" =>
                /\ ~HasReference(p)
                /\ HasApiKey(p) /\ HasInstanceId(p)
                /\ "apikey" \in DOMAIN c.v => p["IAMApiKey"] = c.v["apikey"]
                /\ p["IAMServiceInstanceId"].t = "str"
                /\ IsLastNonEmptySegment(LastRid, p["IAMServiceInstanceId"].v)

\* a dict with both fields went through an entry point
C8_Witness ==
    /\ Returned
    /\ HasRid
    /\ LastRid = <<"a">>
    /\ "apikey" \in DOMAIN last.credentials.v
    /\ LastParams["IAMApiKey"] = Str(<<"k">>)
    /\ LastParams["IAMServiceInstanceId"] = Str(<<"a">>)

\* C9: a resource_instance_id with no non-empty segment raises nothing: unless
\* time_per_object is rejected, the entry point returns normally with
\* IAMServiceInstanceId set to the empty string.
C9_EmptyInstanceId ==
    (/\ last.fn \in EntryFns
     /\ HasRid
     /\ \A k \in 1..Len(LastRid) : LastRid[k] = ":"
     /\ last.exc \notin {"TypeError", "ValueError"})
    => /\ last.exc = "none"
       /\ HasInstanceId(LastParams)
       /\ LastParams["IAMServiceInstanceId"] = Str(<<>>)

\* ":" went through an entry point
C9_Witness ==
    /\ Returned
    /\ HasRid
    /\ LastRid = <<":">>
    /\ LastParams["IAMServiceInstanceId"] = Str(<<>>)

\* C10: a wrapper never raises, and its params hold exactly the arguments
\* that were supplied, each under its own key with the value passed.
C10_WrapperStoresArguments ==
    last.fn \in WrapperFns =>
        /\ last.exc = "none"
        /\ LastParams = last.given

====
